---- MODULE Spec2Model ----
(***************************************************************************)
(* A model of denali-cli's Blueprint class (src/blueprint.ts):             *)
(*   - generate / destroy of a blueprint's template files in a project,    *)
(*   - discovery of the blueprints that addons supply,                     *)
(*   - addRoute / removeRoute on the project's config/routes.js.           *)
(* File contents, file names and map keys are strings, so that rendering   *)
(* and key building are computed, and compared, as the code does.          *)
(***************************************************************************)
EXTENDS Integers, Sequences, FiniteSets, TLC

VARIABLES
  templates,      \* walk(this.templateFiles): the blueprint's template entries, sorted
  fs,             \* the project directory: destination path -> content, or ENOENT
  pc,             \* position of the running command
  action,         \* this.action: "generate" | "destroy"
  data,           \* let data = this.locals(argv)
  idx,            \* position of the forEach loop (generate: walk, destroy: filesToDelete)
  log,            \* what ui.info / ui.error printed during the command
  filesToDelete,  \* destroy's filesToDelete after the map and the two filters
  hookCalls,      \* invocations of postInstall / postUninstall in the command
  thrown,         \* what the hook threw or rejected with
  result,         \* how the command's promise settled
  fs0,            \* history: the project directory when the command started
  sinceGenerate,  \* history: the last generate, while nothing touched the project since
  blueprintsSoFar,\* findBlueprints' blueprints map: key -> blueprint class
  addons,         \* history: the addons discovered so far, in order
  routesFile,     \* config/routes.js: the statements of the exported draw function
  lastRoute       \* history: the last addRoute call and the file it started from

blueprintVars == <<templates, fs, pc, action, data, idx, log, filesToDelete,
                   hookCalls, thrown, result, fs0, sinceGenerate>>
discoverVars == <<blueprintsSoFar, addons>>
routeVars == <<routesFile, lastRoute>>
vars == <<blueprintVars, discoverVars, routeVars>>

----------------------------------------------------------------------------
(* Bounds *)

MaxTemplates == 3   \* template entries in one blueprint
MaxAddons == 3      \* addons that findAddons returns
MaxInitial == 2     \* statements of the routes file before the first call
MaxStatements == 4  \* statements of the routes file

----------------------------------------------------------------------------
(* Templates and rendering (lodash template) *)

ENOENT == "<ENOENT>"
None == "<none>"

Text(s) == [k |-> "text", v |-> s]
Erb(v) == [k |-> "erb", v |-> v]        \* <%= v %>
Es(v) == [k |-> "es", v |-> v]          \* ${ v }
Var(v) == [k |-> "var", v |-> v]        \* __v__

\* The entries walk-sync can list under files/, in its (sorted) order. A directory
\* entry ends in "/".
TemplatePool ==
  << [relativepath |-> <<Var("name")>>, isDirectory |-> FALSE,
      contents |-> <<Text("y="), Es("name")>>],
     [relativepath |-> <<Text("a")>>, isDirectory |-> FALSE,
      contents |-> <<Text("x="), Erb("name")>>],
     [relativepath |-> <<Text("b")>>, isDirectory |-> FALSE,
      contents |-> <<Text("x=a")>>],
     [relativepath |-> <<Text("lib/")>>, isDirectory |-> TRUE,
      contents |-> <<>>] >>

LocalsValues == {"a", "b"}
locals(argv) == [name |-> argv]

\* lodash template(string, options)(data). The ES delimiter ${ } is an interpolation
\* only when options.interpolate is lodash's own reInterpolate object, that is when
\* no interpolate option is passed; <%= %> is matched by both regexes.
RECURSIVE template(_, _, _)
template(tokens, esDelimiter, d) ==
  IF tokens = <<>> THEN ""
  ELSE LET t == Head(tokens)
           piece == CASE t.k = "text" -> t.v
                      [] t.k = "erb" -> d[t.v]
                      [] t.k = "es" -> IF esDelimiter THEN d[t.v]
                                       ELSE "${" \o t.v \o "}"
                      [] t.k = "var" -> d[t.v]
       IN piece \o template(Tail(tokens), esDelimiter, d)

\* template(relativepath, { interpolate: /__([\S]+)__/g })(data)
filenameTemplate(entry, d) == template(entry.relativepath, FALSE, d)

\* generate: template(contents, { interpolate: /<%=([\s\S]+?)%>/g, ... })(data)
contentsTemplate(entry, d) == template(entry.contents, FALSE, d)

\* destroy: template(templateSrc)(data)
compiled(entry, d) == template(entry.contents, TRUE, d)

Paths == {"a", "b"}
NoGenerate == [valid |-> FALSE, resolved |-> FALSE, data |-> locals("a"), created |-> {}, clean |-> FALSE]
UserContents == {"y=a", "zz"}

\* Ascending subsequences of the pool, as walk-sync returns sorted listings.
RECURSIVE SubSeqs(_)
SubSeqs(s) ==
  IF s = <<>> THEN {<<>>}
  ELSE LET rest == SubSeqs(Tail(s))
       IN rest \cup {<<Head(s)>> \o r : r \in rest}

Blueprints == {s \in SubSeqs(TemplatePool) : Len(s) <= MaxTemplates}

Info(kind, path) == [level |-> "info", kind |-> kind, path |-> path]
Error(msg) == [level |-> "error", kind |-> msg, path |-> ""]

----------------------------------------------------------------------------
(* generate *)

HookOutcomes == {"ok", "Error", "string", "undefined"}

generateStart ==
  /\ pc = "idle"
  /\ \E argv \in LocalsValues : data' = locals(argv)
  /\ action' = "generate"
  /\ pc' = "copy"
  /\ idx' = 1
  /\ log' = <<>>
  /\ hookCalls' = 0
  /\ thrown' = None
  /\ result' = "pending"
  /\ fs0' = fs
  /\ sinceGenerate' = NoGenerate
  /\ UNCHANGED <<templates, fs, filesToDelete>>

\* Lines 183-186: an existing destination is reported and left alone.
generateNeverSkips(destRelativepath) == FALSE
generateSkips(destRelativepath) == fs[destRelativepath] # ENOENT

\* Lines 170-198: the try around postInstall follows the (synchronous) forEach.
walkFinishedEarly == idx > Len(templates) - 1
walkFinished == idx > Len(templates)

\* One iteration of walk(this.templateFiles).forEach
generateFile ==
  /\ pc = "copy"
  /\ ~walkFinished
  /\ LET entry == templates[idx]
         destRelativepath == filenameTemplate(entry, data)
     IN IF entry.isDirectory
        THEN UNCHANGED <<fs, log>>
        ELSE IF generateSkips(destRelativepath)
        THEN /\ log' = Append(log, Info("already exists", destRelativepath))
             /\ UNCHANGED fs
        ELSE /\ fs' = [fs EXCEPT ![destRelativepath] = contentsTemplate(entry, data)]
             /\ log' = Append(log, Info("create", destRelativepath))
  /\ idx' = idx + 1
  /\ UNCHANGED <<templates, pc, action, data, filesToDelete, hookCalls, thrown,
                 result, fs0, sinceGenerate>>

\* The destination paths of the blueprint's template files under locals d.
DestPaths(d) ==
  {filenameTemplate(templates[i], d) :
     i \in {j \in 1..Len(templates) : ~templates[j].isDirectory}}

\* try { await this.postInstall(argv) } catch (e) { ui.error(...); ui.error(e.stack || e) }
\* e.stack of undefined (or null) is a TypeError thrown inside the catch block.
postInstallSettles(e) ==
  CASE e = "ok" -> [log |-> <<>>, result |-> "resolved"]
    [] e = "undefined" -> [log |-> <<Error("postInstall failed:")>>,
                           result |-> "rejected"]
    [] OTHER -> [log |-> <<Error("postInstall failed:"), Error(e)>>,
                 result |-> "resolved"]

generatePostInstall ==
  /\ pc = "copy"
  /\ walkFinished
  /\ \E e \in HookOutcomes :
       /\ thrown' = (IF e = "ok" THEN None ELSE e)
       /\ log' = log \o postInstallSettles(e).log
       /\ result' = postInstallSettles(e).result
       /\ sinceGenerate' =
            [valid |-> TRUE, resolved |-> (postInstallSettles(e).result = "resolved"),
             data |-> data,
             created |-> {p \in Paths : fs0[p] = ENOENT /\ fs[p] # ENOENT},
             clean |-> \A p \in DestPaths(data) : fs0[p] = ENOENT]
  /\ hookCalls' = hookCalls + 1
  /\ pc' = "done"
  /\ UNCHANGED <<templates, fs, action, data, idx, filesToDelete, fs0>>

----------------------------------------------------------------------------
(* destroy *)

\* Lines 241-243
destFileIsNotDirty(entry, d) ==
  fs[filenameTemplate(entry, d)] = compiled(entry, d)

\* Lines 228-237: the first filter
destExists(entry, d) ==
  ~entry.isDirectory /\ fs[filenameTemplate(entry, d)] # ENOENT

RECURSIVE missingLog(_, _)
missingLog(entries, d) ==
  IF entries = <<>> THEN <<>>
  ELSE LET e == Head(entries)
       IN (IF ~e.isDirectory /\ ~destExists(e, d)
           THEN <<Info("missing", filenameTemplate(e, d))>> ELSE <<>>)
          \o missingLog(Tail(entries), d)

RECURSIVE dirtyLog(_, _)
dirtyLog(entries, d) ==
  IF entries = <<>> THEN <<>>
  ELSE LET e == Head(entries)
       IN (IF destExists(e, d)
           THEN <<Info(IF destFileIsNotDirty(e, d) THEN "destroy" ELSE "skipped",
                       filenameTemplate(e, d))>>
           ELSE <<>>)
          \o dirtyLog(Tail(entries), d)

\* Lines 220-254: map, filter, filter, map
RECURSIVE selectFilesToDelete(_, _)
selectFilesToDelete(entries, d) ==
  IF entries = <<>> THEN <<>>
  ELSE LET e == Head(entries)
       IN (IF destExists(e, d) /\ destFileIsNotDirty(e, d)
           THEN <<filenameTemplate(e, d)>> ELSE <<>>)
          \o selectFilesToDelete(Tail(entries), d)

destroyStart ==
  /\ pc = "idle"
  /\ \E argv \in LocalsValues :
       /\ data' = locals(argv)
       /\ filesToDelete' = selectFilesToDelete(templates, locals(argv))
       /\ log' = missingLog(templates, locals(argv)) \o dirtyLog(templates, locals(argv))
  /\ action' = "destroy"
  /\ pc' = "delete"
  /\ idx' = 1
  /\ hookCalls' = 0
  /\ thrown' = None
  /\ result' = "pending"
  /\ fs0' = fs
  /\ UNCHANGED <<templates, fs, sinceGenerate>>

\* One iteration of filesToDelete.forEach((file) => rimraf.sync(file))
destroyFile ==
  /\ pc = "delete"
  /\ idx <= Len(filesToDelete)
  /\ fs' = [fs EXCEPT ![filesToDelete[idx]] = ENOENT]
  /\ idx' = idx + 1
  /\ UNCHANGED <<templates, pc, action, data, log, filesToDelete, hookCalls, thrown,
                 result, fs0, sinceGenerate>>

\* await this.postUninstall(argv): not caught
destroyPostUninstall ==
  /\ pc = "delete"
  /\ idx > Len(filesToDelete)
  /\ \E e \in HookOutcomes :
       /\ thrown' = (IF e = "ok" THEN None ELSE e)
       /\ result' = (IF e = "ok" THEN "resolved" ELSE "rejected")
  /\ hookCalls' = hookCalls + 1
  /\ pc' = "done"
  /\ UNCHANGED <<templates, fs, action, data, idx, log, filesToDelete, fs0,
                 sinceGenerate>>

\* run(argv) has settled; the next command starts from the project as it is.
commandExit ==
  /\ pc = "done"
  /\ pc' = "idle"
  /\ sinceGenerate' = (IF action = "destroy" THEN NoGenerate ELSE sinceGenerate)
  /\ UNCHANGED <<templates, fs, action, data, idx, log, filesToDelete, hookCalls,
                 thrown, result, fs0>>

\* Between commands the user edits, creates or removes a project file.
userEdit ==
  /\ pc = "idle"
  /\ \E p \in Paths, c \in UserContents \cup {ENOENT} :
       /\ fs[p] # c
       /\ fs' = [fs EXCEPT ![p] = c]
  /\ sinceGenerate' = NoGenerate
  /\ UNCHANGED <<templates, pc, action, data, idx, log, filesToDelete, hookCalls,
                 thrown, result, fs0>>


----------------------------------------------------------------------------
(* Properties of generate and destroy *)

IsFile(i) == i \in 1..Len(templates) /\ ~templates[i].isDirectory
TemplateFiles == {i \in 1..Len(templates) : IsFile(i)}
Logged(kind, path) == \E k \in 1..Len(log) : log[k] = Info(kind, path)
CountKinds(kinds) ==
  Cardinality({k \in 1..Len(log) : log[k].level = "info" /\ log[k].kind \in kinds})

\* C1: destroy deletes a destination file only if its content equals what the
\* blueprint generates for a template of that path with the current locals; a
\* file that differs from it stays in place, unchanged, and is reported skipped.
DestroyOnlyRemovesUnmodified ==
  (action = "destroy" /\ pc \in {"delete", "done"}) =>
    \A p \in Paths :
      LET generated == {contentsTemplate(templates[i], data) :
                          i \in {j \in TemplateFiles :
                                   filenameTemplate(templates[j], data) = p}}
      IN /\ (fs0[p] # ENOENT /\ fs[p] = ENOENT) => fs0[p] \in generated
         /\ (fs0[p] # ENOENT /\ generated # {} /\ fs0[p] \notin generated) =>
              (fs[p] = fs0[p] /\ Logged("skipped", p))

\* C2: generate, then destroy with the same locals and nothing in between, on a
\* project that held none of the destination paths, removes every file that
\* generate created.
DestroyReversesGenerate ==
  (action = "destroy" /\ pc = "done" /\ result = "resolved"
     /\ sinceGenerate.valid /\ sinceGenerate.resolved
     /\ sinceGenerate.data = data /\ sinceGenerate.clean) =>
    \A p \in sinceGenerate.created : fs[p] = ENOENT

GenerateNeverOverwrites ==
  (action = "generate" /\ pc \in {"copy", "done"}) =>
    /\ \A p \in Paths : fs0[p] # ENOENT => fs[p] = fs0[p]
    /\ \A k \in 1..Len(log) : log[k].kind = "create" => fs0[log[k].path] = ENOENT
    /\ \A i \in TemplateFiles :
         (i < idx /\ fs0[filenameTemplate(templates[i], data)] # ENOENT) =>
           Logged("already exists", filenameTemplate(templates[i], data))

GenerateNeverOverwritesWitness ==
  /\ action = "generate" /\ pc = "done"
  /\ \E p \in DestPaths(data) : fs0[p] # ENOENT /\ Logged("already exists", p)
  /\ \E p \in DestPaths(data) : fs0[p] = ENOENT /\ Logged("create", p)

\* C8: a postInstall that throws or rejects does not fail generate: the error is
\* logged, generate resolves, and every file written stays as written.
FailingPostInstallIsSwallowed ==
  (action = "generate" /\ pc = "done" /\ thrown # None) =>
    /\ result = "resolved"
    /\ \E k \in 1..Len(log) : log[k] = Error("postInstall failed:")
    /\ \A i \in TemplateFiles :
         LET p == filenameTemplate(templates[i], data)
         IN Logged("create", p) => fs[p] # ENOENT


----------------------------------------------------------------------------
(* findBlueprints / discoverBlueprintsForAddon *)

\* findAddons(isLocal): the addons, in the order they are visited
AddonNames == <<"A", "B", "C", "D", "E">>

\* What tryRequire(path.join(dir, dirname)) loads: a module whose blueprint class
\* may set blueprintName, and which either is the class (module.exports = Class)
\* or holds it as its default export.
Module(dirname, blueprintName, esModule) ==
  [dirname |-> dirname, blueprintName |-> blueprintName, esModule |-> esModule]

\* fs.readdirSync(dir) of <addon>/blueprints, filtered to directories: sorted
BlueprintDirs ==
  {<<>>} \cup
  {<<Module(d, n, e)>> : d \in {"bar", "foo"}, n \in {None, "foo"}, e \in BOOLEAN} \cup
  {<<Module("bar", n1, e), Module("foo", n2, e)>> :
     n1 \in {None, "foo"}, n2 \in {None, "foo"}, e \in BOOLEAN}

\* fs.existsSync(dir) and the listing
Listings ==
  {[exists |-> TRUE, dirs |-> l] : l \in BlueprintDirs} \cup
  {[exists |-> FALSE, dirs |-> <<>>]}

blueprintsPath(addonName) == addonName \o "/blueprints"

\* Lines 103-105 and 110: BlueprintClass.addon = addonName is set on what
\* tryRequire returned, the entry is BlueprintClass.default || BlueprintClass. A
\* default export never gets the addon property.
loadBlueprint(addonName, dir, m) ==
  [addon |-> IF m.esModule THEN "undefined" ELSE addonName,
   dir |-> dir \o "/" \o m.dirname,
   blueprintName |-> m.blueprintName]

\* Line 114: BlueprintClass.blueprintName || blueprintDir
invocationNameIsDirname(m) == m.dirname
invocationName(m) == IF m.blueprintName # None THEN m.blueprintName ELSE m.dirname

\* Lines 100-114: the reduce over the directories, then mapKeys: a later directory
\* with the same invocation name replaces an earlier one.
RECURSIVE loadBlueprints(_, _, _)
loadBlueprints(addonName, dir, listing) ==
  IF listing = <<>> THEN <<>>
  ELSE LET m == listing[Len(listing)]
           before == loadBlueprints(addonName, dir, SubSeq(listing, 1, Len(listing) - 1))
       IN (invocationName(m) :> loadBlueprint(addonName, dir, m)) @@ before

\* keys(Blueprints), in insertion order
RECURSIVE keysOf(_)
keysOf(listing) ==
  IF listing = <<>> THEN <<>>
  ELSE LET rest == keysOf(Tail(listing))
           k == invocationName(Head(listing))
       IN <<k>> \o SelectSeq(rest, LAMBDA x : x # k)

\* Lines 118-121: each already-loaded blueprint with a colliding name is also
\* stored under clobberedBlueprint.addon + ':' + collidingBlueprintName
RECURSIVE moveClobbered(_, _)
moveClobbered(soFar, colliding) ==
  IF colliding = <<>> THEN soFar
  ELSE LET collidingBlueprintName == Head(colliding)
           clobberedBlueprint == soFar[collidingBlueprintName]
           scoped == clobberedBlueprint.addon \o ":" \o collidingBlueprintName
       IN moveClobbered((scoped :> clobberedBlueprint) @@ soFar, Tail(colliding))

\* Lines 95-124
discoverBlueprintsForAddon(soFar, addonName, listing) ==
  IF ~listing.exists THEN soFar
  ELSE LET dir == blueprintsPath(addonName)
           Loaded == loadBlueprints(addonName, dir, listing.dirs)
           colliding == SelectSeq(keysOf(listing.dirs), LAMBDA k : k \in DOMAIN soFar)
       IN Loaded @@ moveClobbered(soFar, colliding)

\* One iteration of addons.forEach in findBlueprints (lines 68-70)
discoverAddon ==
  /\ Len(addons) < MaxAddons
  /\ \E listing \in Listings :
       LET addonName == AddonNames[Len(addons) + 1]
       IN /\ blueprintsSoFar' =
               discoverBlueprintsForAddon(blueprintsSoFar, addonName, listing)
          /\ addons' = Append(addons, [name |-> addonName, exists |-> listing.exists,
                                        listing |-> listing.dirs])
  /\ UNCHANGED <<blueprintVars, routeVars>>

\* C4: every blueprint directory of the addon just discovered is registered
\* under its blueprintName when set, under the directory name otherwise, by an
\* entry whose dir is that directory.
EveryDirectoryRegistered ==
  (addons # <<>> /\ addons[Len(addons)].exists) =>
    LET addon == addons[Len(addons)]
    IN \A i \in 1..Len(addon.listing) :
         LET m == addon.listing[i]
             key == IF m.blueprintName # None THEN m.blueprintName ELSE m.dirname
         IN /\ key \in DOMAIN blueprintsSoFar
            /\ blueprintsSoFar[key].dir = blueprintsPath(addon.name) \o "/" \o m.dirname

\* C4, amended: the entry under an invocation name is the last directory (in
\* readdir order) of the addon with that name; a directory whose invocation name
\* no other directory of the addon shares yields the entry for that name.
LastDirectoryOfEachNameRegistered ==
  (addons # <<>> /\ addons[Len(addons)].exists) =>
    LET addon == addons[Len(addons)]
        Key(m) == IF m.blueprintName # None THEN m.blueprintName ELSE m.dirname
    IN \A i \in 1..Len(addon.listing) :
         LET m == addon.listing[i]
             last == \A j \in (i + 1)..Len(addon.listing) :
                       Key(addon.listing[j]) # Key(m)
         IN /\ Key(m) \in DOMAIN blueprintsSoFar
            /\ last => /\ blueprintsSoFar[Key(m)].dir =
                            blueprintsPath(addon.name) \o "/" \o m.dirname
                       /\ blueprintsSoFar[Key(m)].blueprintName = m.blueprintName

LastDirectoryOfEachNameRegisteredWitness ==
  /\ Len(addons) >= 2
  /\ Len(addons[Len(addons)].listing) = 2
  /\ \E i \in 1..2 : addons[Len(addons)].listing[i].blueprintName = None
  /\ addons[Len(addons)].listing[1].blueprintName = "foo"
  /\ "bar" \in DOMAIN blueprintsSoFar

\* C6: no blueprint is lost to a name collision between addons: each blueprint
\* an addon supplied is in the map, under its invocation name if that addon is
\* the most recent one supplying the name, under '<addon>:<name>' otherwise.
Supplies(a, name) ==
  \E i \in 1..Len(addons[a].listing) : invocationName(addons[a].listing[i]) = name

NoBlueprintLost ==
  \A a \in 1..Len(addons) :
      \A i \in 1..Len(addons[a].listing) :
        LET m == addons[a].listing[i]
            name == invocationName(m)
            supplied == \A j \in (i + 1)..Len(addons[a].listing) :
                          invocationName(addons[a].listing[j]) # name
            dir == blueprintsPath(addons[a].name) \o "/" \o m.dirname
            key == IF \E b \in (a + 1)..Len(addons) : Supplies(b, name)
                   THEN addons[a].name \o ":" \o name
                   ELSE name
        IN supplied => (key \in DOMAIN blueprintsSoFar /\ blueprintsSoFar[key].dir = dir)


----------------------------------------------------------------------------
(* addRoute / removeRoute on config/routes.js *)

\* drawRoutesFunction.params[0].name
routerArgName == "router"

\* An expression statement <object>.<method>(<string literals>)
Call(object, method, arguments) ==
  [object |-> object, method |-> method, arguments |-> arguments]

Methods == {"get", "post"}
UrlPatterns == {"/a", "/b"}
ActionPaths == {"x"}
RestArgs == {<<>>, <<"z">>}

StatementPool ==
  { Call(routerArgName, "get", <<"/a", "x">>),
    Call(routerArgName, "post", <<"/a", "x", "z">>),
    Call(routerArgName, "get", <<>>),
    Call("console", "log", <<"/a">>) }

RECURSIVE SeqsUpTo(_, _)
SeqsUpTo(S, n) ==
  IF n = 0 THEN {<<>>}
  ELSE LET shorter == SeqsUpTo(S, n - 1)
       IN shorter \cup {Append(q, x) : q \in shorter, x \in S}

\* jscodeshift's matchNode on the arguments array: every index of the needle
\* exists in the call's arguments with the same literal value.
argumentsMatch(arguments, needle) ==
  /\ Len(needle) <= Len(arguments)
  /\ \A k \in 1..Len(needle) : arguments[k] = needle[k]

\* Lines 300-310 (and 341-351): the filter of find(j.ExpressionStatement, ...)
matchesRoute(stmt, method, urlPattern, actionPath, args) ==
  /\ stmt.object = routerArgName
  /\ stmt.method = method
  /\ argumentsMatch(stmt.arguments, <<urlPattern, actionPath>> \o args)

duplicate(file, method, urlPattern, actionPath, args) ==
  {k \in 1..Len(file) : matchesRoute(file[k], method, urlPattern, actionPath, args)}

\* Lines 314-320
routerInvocations(file) == {k \in 1..Len(file) : file[k].object = routerArgName}

Max(S) == CHOOSE x \in S : \A y \in S : y <= x

\* Lines 322-325: the new statement's arguments are the rest arguments only
newRoute(method, urlPattern, actionPath, args) == Call(routerArgName, method, args)

\* Lines 292-328: the file as addRoute leaves it
addRoute(file, method, urlPattern, actionPath, args) ==
  IF duplicate(file, method, urlPattern, actionPath, args) # {} THEN file
  ELSE IF routerInvocations(file) = {} THEN file
  ELSE LET last == Max(routerInvocations(file))
       IN SubSeq(file, 1, last)
          \o <<newRoute(method, urlPattern, actionPath, args)>>
          \o SubSeq(file, last + 1, Len(file))

\* Lines 333-353: the file as removeRoute leaves it
removeRoute(file, method, urlPattern, actionPath, args) ==
  SelectSeq(file, LAMBDA stmt : ~matchesRoute(stmt, method, urlPattern, actionPath, args))

NoRoute == [valid |-> FALSE, method |-> "get", urlPattern |-> "/a", actionPath |-> "x",
            args |-> <<>>, before |-> <<>>]

callAddRoute ==
  /\ Len(routesFile) < MaxStatements
  /\ \E method \in Methods, urlPattern \in UrlPatterns, actionPath \in ActionPaths,
        args \in RestArgs :
       /\ routesFile' = addRoute(routesFile, method, urlPattern, actionPath, args)
       /\ lastRoute' = [valid |-> TRUE, method |-> method, urlPattern |-> urlPattern,
                        actionPath |-> actionPath, args |-> args, before |-> routesFile]
  /\ UNCHANGED <<blueprintVars, discoverVars>>

callRemoveRoute ==
  /\ \E method \in Methods, urlPattern \in UrlPatterns, actionPath \in ActionPaths,
        args \in RestArgs :
       routesFile' = removeRoute(routesFile, method, urlPattern, actionPath, args)
  /\ lastRoute' = NoRoute
  /\ UNCHANGED <<blueprintVars, discoverVars>>

\* C3: addRoute(method, urlPattern, actionPath) on a file with at least one
\* router invocation and none matching the arguments leaves the file with the
\* call <router>.<method>(urlPattern, actionPath) right after the last
\* pre-existing router invocation, every pre-existing statement kept.
AddRouteAddsTheRoute ==
  (/\ lastRoute.valid
   /\ lastRoute.args = <<>>
   /\ routerInvocations(lastRoute.before) # {}
   /\ duplicate(lastRoute.before, lastRoute.method, lastRoute.urlPattern,
                lastRoute.actionPath, <<>>) = {}) =>
    LET last == Max(routerInvocations(lastRoute.before))
    IN routesFile =
         SubSeq(lastRoute.before, 1, last)
         \o <<Call(routerArgName, lastRoute.method,
                   <<lastRoute.urlPattern, lastRoute.actionPath>>)>>
         \o SubSeq(lastRoute.before, last + 1, Len(lastRoute.before))

----------------------------------------------------------------------------

DiscoverInit ==
  /\ blueprintsSoFar = <<>>
  /\ addons = <<>>

RouteInit ==
  /\ routesFile = <<>>
  /\ lastRoute = NoRoute

NoCommand ==
  /\ fs = [p \in Paths |-> ENOENT]
  /\ pc = "idle"
  /\ action = "generate"
  /\ data = locals("a")
  /\ idx = 1
  /\ log = <<>>
  /\ filesToDelete = <<>>
  /\ hookCalls = 0
  /\ thrown = None
  /\ result = "pending"
  /\ fs0 = [p \in Paths |-> ENOENT]
  /\ sinceGenerate = NoGenerate

BlueprintInit == templates \in Blueprints /\ NoCommand

Init == BlueprintInit /\ DiscoverInit /\ RouteInit

Next ==
  \/ generateStart /\ UNCHANGED <<discoverVars, routeVars>>
  \/ generateFile /\ UNCHANGED <<discoverVars, routeVars>>
  \/ generatePostInstall /\ UNCHANGED <<discoverVars, routeVars>>
  \/ destroyStart /\ UNCHANGED <<discoverVars, routeVars>>
  \/ destroyFile /\ UNCHANGED <<discoverVars, routeVars>>
  \/ destroyPostUninstall /\ UNCHANGED <<discoverVars, routeVars>>
  \/ commandExit /\ UNCHANGED <<discoverVars, routeVars>>
  \/ userEdit /\ UNCHANGED <<discoverVars, routeVars>>

Spec == Init /\ [][Next]_vars

NextDiscover == discoverAddon

NextRoutes == callAddRoute \/ callRemoveRoute

InitRoutes ==
  /\ templates = <<>> /\ NoCommand /\ DiscoverInit
  /\ routesFile \in SeqsUpTo(StatementPool, MaxInitial)
  /\ lastRoute = NoRoute

SpecRoutes == InitRoutes /\ [][NextRoutes]_vars

InitDiscover == templates = <<>> /\ NoCommand /\ DiscoverInit /\ RouteInit

SpecDiscover == InitDiscover /\ [][NextDiscover]_vars

====
